---- MODULE Spec2Model ----
(***************************************************************************)
(* fixed_step_chunker of oplot/util.py as a state machine.                 *)
(*                                                                         *)
(* One call of fixed_step_chunker on a list (the slicing branch) and one   *)
(* call on a one-pass iterator over the same elements (the islice branch)  *)
(* run side by side on the same arguments.  A generator is advanced by     *)
(* next(): each action below is one next() call, running the body from the *)
(* point where it was suspended to the following yield (or to its end, or  *)
(* to the exception it raises).                                            *)
(***************************************************************************)
EXTENDS Integers, Sequences, FiniteSets, TLC

VARIABLES
    src,            \* the elements of the source, in order
    chk_size,       \* argument chk_size
    chk_step,       \* argument chk_step (None or Some(n))
    start_at,       \* argument start_at (None or Some(n))
    stop_at,        \* argument stop_at  (None or Some(n))
    return_tail,    \* argument return_tail
    pcL,            \* list branch: where the generator is suspended
    itL,            \* list branch: it after it = it[start_at:stop_at]
    n_full_chk_to_return,
    i,              \* list branch: loop variable of the for loop
    bt,
    tt,
    outL,           \* chunks the list-branch generator has yielded so far
    pcC,            \* iterator branch: where the generator is suspended
    isl,            \* iterator branch: it = islice(it, start_at, stop_at) and the source under it
    chk,            \* iterator branch: the buffered chunk
    outC,           \* chunks the iterator-branch generator has yielded so far
    pulledAt        \* source elements consumed at the moment of each yield

vars == <<src, chk_size, chk_step, start_at, stop_at, return_tail,
          pcL, itL, n_full_chk_to_return, i, bt, tt, outL,
          pcC, isl, chk, outC, pulledAt>>

args == <<src, chk_size, chk_step, start_at, stop_at, return_tail>>
listVars == <<pcL, itL, n_full_chk_to_return, i, bt, tt, outL>>
iterVars == <<pcC, isl, chk, outC, pulledAt>>

----------------------------------------------------------------------------
(* Bounds of the model.                                                    *)

MaxLen == 4
MaxSize == 3
MaxStep == 3
MaxStart == 2
MaxStop == 5

\* No call with valid arguments yields more than Len(src) chunks; a
\* generator that would never finish is stopped after this many.
MaxChunks == MaxLen + 3

----------------------------------------------------------------------------
(* Optional arguments and Python's built-ins.                              *)

None == {}
Some(n) == {n}
Val(o) == CHOOSE n \in o : TRUE

Max(a, b) == IF a >= b THEN a ELSE b
Min(a, b) == IF a <= b THEN a ELSE b

\* range(1, n + 1), as in the doctests
Range1(n) == [k \in 1..n |-> k]

\* a slice bound of a sequence of length n, as list.__getitem__ resolves it
ClampIdx(k, n) == IF k < 0 THEN Max(k + n, 0) ELSE Min(k, n)

\* s[lo:hi]
PySlice(s, lo, hi) ==
    LET a == ClampIdx(lo, Len(s))
        b == ClampIdx(hi, Len(s))
    IN  IF a < b THEN SubSeq(s, a + 1, b) ELSE <<>>

\* s[lo:]
PySliceFrom(s, lo) == PySlice(s, lo, Len(s))

\* int(num / den): the quotient truncated toward zero (den # 0)
IntTrunc(num, den) ==
    LET an == IF num < 0 THEN 0 - num ELSE num
        ad == IF den < 0 THEN 0 - den ELSE den
        q  == an \div ad
    IN  IF (num < 0) = (den < 0) THEN q ELSE 0 - q

----------------------------------------------------------------------------
(* Parameter defaults (lines 186-190).                                     *)

Step == IF chk_step = None THEN chk_size ELSE Val(chk_step)
StartAt == IF start_at = None THEN 0 ELSE Val(start_at)

----------------------------------------------------------------------------
(* The list branch (lines 193-214).                                        *)

\* NFullChunks without the "+ 1"
NFullChunksNoPlusOne(len, size, step) ==
    Max(IntTrunc(len - size, step), 0)

\* lines 200-201: max(int((it_minus_chk_length / chk_step) + 1), 0)
NFullChunks(len, size, step) ==
    LET it_minus_chk_length == len - size
    IN  Max(IntTrunc(it_minus_chk_length + step, step), 0)

\* TailContinues with >= for >
TailContinuesEmpty(c) == Len(c) >= 0

\* TailContinues that gives up on a last chunk of one element
TailContinuesShort(c) == Len(c) > 1

\* lines 211 and 237: the test of the two return_tail loops
TailContinues(c) == Len(c) > 0

\* Window that forgets start_at
WindowFromZero ==
    PySlice(src, 0, IF stop_at = None THEN Len(src)
                    ELSE Min(Len(src), Val(stop_at)))

\* lines 194-199: it = it[start_at:stop_at] with stop_at clamped to len(it)
Window ==
    LET stop == IF stop_at = None THEN Len(src)
                ELSE Min(Len(src), Val(stop_at))
    IN  PySlice(src, StartAt, stop)

\* The head of the for loop at index k with cursor (b, t), falling through
\* to the return_tail loop and to the end of the generator.
ListLoop(w, n, k, b, t) ==
    /\ bt' = b
    /\ tt' = t
    /\ IF k < n
       THEN /\ pcL' = "full"
            /\ i' = k
            /\ outL' = Append(outL, PySlice(w, b, t))
       ELSE IF return_tail /\ TailContinues(PySlice(w, b, t))
       THEN /\ pcL' = "tail"
            /\ i' = i
            /\ outL' = Append(outL, PySlice(w, b, t))
       ELSE /\ pcL' = "done"
            /\ i' = i
            /\ outL' = outL

\* first next(): lines 186-206 (or to 212, or to the end)
ListStart ==
    /\ pcL = "start"
    /\ itL' = Window
    /\ IF Step = 0
       THEN /\ pcL' = "ZeroDivisionError"
            /\ UNCHANGED <<n_full_chk_to_return, i, bt, tt, outL>>
       ELSE /\ n_full_chk_to_return' = NFullChunks(Len(Window), chk_size, Step)
            /\ ListLoop(Window, NFullChunks(Len(Window), chk_size, Step),
                        0, 0, chk_size)
    /\ UNCHANGED <<args, iterVars>>

\* next() after a yield at line 206: lines 207-208, then the loop head
ListResumeFull ==
    /\ pcL = "full"
    /\ Len(outL) < MaxChunks
    /\ ListLoop(itL, n_full_chk_to_return, i + 1, bt + Step, tt + Step)
    /\ UNCHANGED <<itL, n_full_chk_to_return>>
    /\ UNCHANGED <<args, iterVars>>

\* next() after a yield at line 212: lines 213-214, then the while test
ListResumeTail ==
    /\ pcL = "tail"
    /\ Len(outL) < MaxChunks
    /\ ListLoop(itL, 0, 0, bt + Step, tt + Step)
    /\ UNCHANGED <<itL, n_full_chk_to_return>>
    /\ UNCHANGED <<args, iterVars>>

----------------------------------------------------------------------------
(* itertools.islice over the one-pass source (lines 220-221, 225, 228-229, *)
(* 234).  isl is the islice object of line 220/228 together with the       *)
(* source iterator it wraps: pos elements of src have been consumed, cnt   *)
(* of them through the islice, nxt is the index of the next element it     *)
(* will hand out, live is false once it has signalled exhaustion.          *)

\* OuterNext whose stop test is > for >=
OuterNextStopInclusive(o) ==
    LET dead(p, c) == [o |-> [o EXCEPT !.pos = p, !.cnt = c, !.live = FALSE],
                       got |-> FALSE, item |-> 0]
        need  == Max(o.nxt - o.cnt, 0)
        avail == Len(src) - o.pos
    IN  IF ~o.live THEN [o |-> o, got |-> FALSE, item |-> 0]
        ELSE IF need > avail THEN dead(Len(src), o.cnt + avail)
        ELSE IF stop_at # None /\ o.cnt + need > Val(stop_at)
             THEN dead(o.pos + need, o.cnt + need)
        ELSE IF o.pos + need >= Len(src)
             THEN dead(o.pos + need, o.cnt + need)
        ELSE [o |-> [o EXCEPT !.pos = o.pos + need + 1,
                              !.cnt = o.cnt + need + 1,
                              !.nxt = o.nxt + 1],
              got |-> TRUE,
              item |-> src[o.pos + need + 1]]

\* OuterNext that fetches the next element before it tests stop
OuterNextFetchFirst(o) ==
    LET dead(p, c) == [o |-> [o EXCEPT !.pos = p, !.cnt = c, !.live = FALSE],
                       got |-> FALSE, item |-> 0]
        need  == Max(o.nxt - o.cnt, 0)
        avail == Len(src) - o.pos
    IN  IF ~o.live THEN [o |-> o, got |-> FALSE, item |-> 0]
        ELSE IF need > avail THEN dead(Len(src), o.cnt + avail)
        ELSE IF o.pos + need >= Len(src)
             THEN dead(o.pos + need, o.cnt + need)
        ELSE IF stop_at # None /\ o.cnt + need >= Val(stop_at)
             THEN dead(o.pos + need + 1, o.cnt + need + 1)
        ELSE [o |-> [o EXCEPT !.pos = o.pos + need + 1,
                              !.cnt = o.cnt + need + 1,
                              !.nxt = IF stop_at # None /\ o.nxt + 1 > Val(stop_at)
                                      THEN Val(stop_at) ELSE o.nxt + 1],
              got |-> TRUE,
              item |-> src[o.pos + need + 1]]

\* one next() on islice(it, start_at, stop_at)
OuterNext(o) ==
    LET dead(p, c) == [o |-> [o EXCEPT !.pos = p, !.cnt = c, !.live = FALSE],
                       got |-> FALSE, item |-> 0]
        need  == Max(o.nxt - o.cnt, 0)
        avail == Len(src) - o.pos
    IN  IF ~o.live THEN [o |-> o, got |-> FALSE, item |-> 0]
        ELSE IF need > avail THEN dead(Len(src), o.cnt + avail)
        ELSE IF stop_at # None /\ o.cnt + need >= Val(stop_at)
             THEN dead(o.pos + need, o.cnt + need)
        ELSE IF o.pos + need >= Len(src)
             THEN dead(o.pos + need, o.cnt + need)
        ELSE [o |-> [o EXCEPT !.pos = o.pos + need + 1,
                              !.cnt = o.cnt + need + 1,
                              !.nxt = IF stop_at # None /\ o.nxt + 1 > Val(stop_at)
                                      THEN Val(stop_at) ELSE o.nxt + 1],
              got |-> TRUE,
              item |-> src[o.pos + need + 1]]

RECURSIVE Take(_, _)
\* up to k elements pulled from the islice
Take(o, k) ==
    IF k <= 0 THEN [o |-> o, items |-> <<>>]
    ELSE LET r == OuterNext(o)
         IN  IF ~r.got THEN [o |-> r.o, items |-> <<>>]
             ELSE LET rest == Take(r.o, k - 1)
                  IN  [o |-> rest.o, items |-> <<r.item>> \o rest.items]

RECURSIVE Skip(_, _)
\* g elements pulled from the islice and dropped
Skip(o, g) ==
    IF g <= 0 THEN [o |-> o, ok |-> TRUE]
    ELSE LET r == OuterNext(o)
         IN  IF ~r.got THEN [o |-> r.o, ok |-> FALSE]
             ELSE Skip(r.o, g - 1)

\* IsliceList that reads one element ahead and keeps the first k
IsliceListAhead(o, g, k) ==
    LET s == Skip(o, g)
        r == Take(s.o, k + 1)
    IN  IF s.ok THEN [o |-> r.o, items |-> SubSeq(r.items, 1, Min(k, Len(r.items)))]
        ELSE [o |-> s.o, items |-> <<>>]

\* list(islice(it, g, g + k))
IsliceList(o, g, k) ==
    LET s == Skip(o, g)
    IN  IF s.ok THEN Take(s.o, k) ELSE [o |-> s.o, items |-> <<>>]

----------------------------------------------------------------------------
(* The iterator branch (lines 217-239).                                    *)

\* OverlapReform that drops one element instead of chk_step
OverlapReformDropOne(c, fresh) == PySliceFrom(c, 1) \o fresh

\* line 225: chk[chk_step:] + list(islice(it, chk_step))
OverlapReform(c, fresh) == PySliceFrom(c, Step) \o fresh

\* TailTrim that trims nothing
TailTrimNothing(c) == PySliceFrom(c, 0)

\* line 239: chk[chk_step:]
TailTrim(c) == PySliceFrom(c, Step)

\* The test of the full-chunk while loop (line 223 / 232) on a freshly
\* formed chunk c, falling through to the return_tail loop (line 236).
CursorLoop(o, c) ==
    /\ isl' = o
    /\ chk' = c
    /\ IF Len(c) = chk_size
       THEN /\ pcC' = IF Step < chk_size THEN "overlap" ELSE "spaced"
            /\ outC' = Append(outC, c)
            /\ pulledAt' = Append(pulledAt, o.pos)
       ELSE IF return_tail /\ TailContinues(c)
       THEN /\ pcC' = "tail"
            /\ outC' = Append(outC, c)
            /\ pulledAt' = Append(pulledAt, o.pos)
       ELSE /\ pcC' = "done"
            /\ outC' = outC
            /\ pulledAt' = pulledAt

\* first next(): lines 186-190, 218-224 or 228-233
CursorStart ==
    /\ pcC = "start"
    /\ IF chk_size < 0
       THEN /\ pcC' = "ValueError"
            /\ isl' = [isl EXCEPT !.nxt = StartAt]
            /\ UNCHANGED <<chk, outC, pulledAt>>
       ELSE LET r == IsliceList([isl EXCEPT !.nxt = StartAt], 0, chk_size)
            IN  CursorLoop(r.o, r.items)
    /\ UNCHANGED <<args, listVars>>

\* next() after a yield at line 224: line 225, then the while test
CursorResumeOverlap ==
    /\ pcC = "overlap"
    /\ Len(outC) < MaxChunks
    /\ IF Step < 0
       THEN /\ pcC' = "ValueError"
            /\ UNCHANGED <<isl, chk, outC, pulledAt>>
       ELSE LET r == IsliceList(isl, 0, Step)
            IN  CursorLoop(r.o, OverlapReform(chk, r.items))
    /\ UNCHANGED <<args, listVars>>

\* next() after a yield at line 233: line 234, then the while test
CursorResumeSpaced ==
    /\ pcC = "spaced"
    /\ Len(outC) < MaxChunks
    /\ LET gap == Step - chk_size
           r == IsliceList(isl, gap, chk_size)
       IN  CursorLoop(r.o, r.items)
    /\ UNCHANGED <<args, listVars>>

\* next() after a yield at line 238: line 239, then the while test
CursorResumeTail ==
    /\ pcC = "tail"
    /\ Len(outC) < MaxChunks
    /\ isl' = isl
    /\ chk' = TailTrim(chk)
    /\ IF TailContinues(TailTrim(chk))
       THEN /\ pcC' = "tail"
            /\ outC' = Append(outC, TailTrim(chk))
            /\ pulledAt' = Append(pulledAt, isl.pos)
       ELSE /\ pcC' = "done"
            /\ UNCHANGED <<outC, pulledAt>>
    /\ UNCHANGED <<args, listVars>>

----------------------------------------------------------------------------
(* Specifications.                                                         *)

Optional(S) == {None} \cup {Some(n) : n \in S}

\* both generators created, neither advanced yet
Created ==
    /\ pcL = "start"
    /\ itL = <<>>
    /\ n_full_chk_to_return = 0
    /\ i = 0
    /\ bt = 0
    /\ tt = 0
    /\ outL = <<>>
    /\ pcC = "start"
    /\ isl = [pos |-> 0, cnt |-> 0, nxt |-> 0, live |-> TRUE]
    /\ chk = <<>>
    /\ outC = <<>>
    /\ pulledAt = <<>>

\* calls with valid arguments
Init ==
    /\ src \in {Range1(n) : n \in 0..MaxLen}
    /\ chk_size \in 1..MaxSize
    /\ chk_step \in Optional(1..MaxStep)
    /\ start_at \in Optional(0..MaxStart)
    /\ stop_at \in Optional(0..MaxStop)
    /\ return_tail \in BOOLEAN
    /\ Created

\* calls whose chk_size or chk_step may also be zero or negative
InitAny ==
    /\ src \in {Range1(n) : n \in 0..MaxLen}
    /\ chk_size \in (0 - 1)..MaxSize
    /\ chk_step \in Optional((0 - 1)..MaxStep)
    /\ start_at \in Optional(0..MaxStart)
    /\ stop_at \in Optional(0..MaxStop)
    /\ return_tail \in BOOLEAN
    /\ Created

Next ==
    \/ ListStart
    \/ ListResumeFull
    \/ ListResumeTail
    \/ CursorStart
    \/ CursorResumeOverlap
    \/ CursorResumeSpaced
    \/ CursorResumeTail

Spec == Init /\ [][Next]_vars

SpecAny == InitAny /\ [][Next]_vars

----------------------------------------------------------------------------
(* Vocabulary of the properties.                                           *)

ValidArgs == chk_size >= 1 /\ Step >= 1

\* the end of the window in source indices
WindowEnd == IF stop_at = None THEN Len(src) ELSE Min(Val(stop_at), Len(src))

\* src[a:b] for 0 <= a
Elems(a, b) == IF a < b THEN SubSeq(src, a + 1, b) ELSE <<>>

Finished == pcL = "done" /\ pcC = "done"

----------------------------------------------------------------------------
(* C1 - the two branches yield the same chunks.                            *)

\* the chunk sequences yielded so far by the two branches
Outs == {outL, outC}

\* C1: with valid arguments the list branch and the iterator branch yield
\* identical chunk sequences: at every moment the chunks both have yielded
\* so far agree pairwise, and once both are exhausted they have yielded the
\* same number of chunks.
C1_Equivalence ==
    /\ \A n \in 1..Min(Len(outL), Len(outC)) : outL[n] = outC[n]
    /\ Finished => outL = outC

C1_Witness ==
    /\ Finished
    /\ return_tail
    /\ Step < chk_size
    /\ StartAt > 0
    /\ stop_at # None
    /\ Len(outC) >= 3
    /\ Len(outC[Len(outC)]) < chk_size

----------------------------------------------------------------------------
(* C2 - non-positive chk_size or chk_step.                                 *)

\* C2: a call with chk_size <= 0 or chk_step <= 0 fails with an
\* InvalidParameter error in both branches: no chunk is ever yielded and the
\* first next() ends in that error.
C2_InvalidParameterRaised ==
    ~ValidArgs =>
        /\ outL = <<>>
        /\ outC = <<>>
        /\ pcL \in {"start", "InvalidParameter"}
        /\ pcC \in {"start", "InvalidParameter"}

----------------------------------------------------------------------------
(* C3 - position and contents of every chunk.                              *)

\* the chunk that starts at progression index n (from 0), cut at the window end
ChunkAt(n) ==
    Elems(StartAt + n * Step, Min(StartAt + n * Step + chk_size, WindowEnd))

\* C3: in both branches the n-th yielded chunk (tail chunks included) holds
\* exactly the source elements at indices start_at + n * chk_step up to, but
\* not including, min(start_at + n * chk_step + chk_size, end of window).
C3_ChunkContents ==
    \A out \in Outs : \A n \in 1..Len(out) : out[n] = ChunkAt(n - 1)

C3_Witness ==
    /\ Len(outL) >= 2
    /\ Len(outC) >= 2
    /\ StartAt = 1
    /\ Step = 2
    /\ chk_size = 3
    /\ outL[1] = <<2, 3, 4>>
    /\ outC[1] = <<2, 3, 4>>
    /\ outL[2] = <<4>>
    /\ outC[2] = <<4>>

----------------------------------------------------------------------------
(* C4 - return_tail false.                                                 *)

\* C4: when return_tail is false every chunk yielded by either branch has
\* length exactly chk_size, and none holds an element whose source index is
\* at or beyond stop_at or the end of the source (src[k] = k + 1).
C4_OnlyFullChunks ==
    ~return_tail =>
        \A out \in Outs : \A n \in 1..Len(out) :
            /\ Len(out[n]) = chk_size
            /\ \A k \in 1..Len(out[n]) : out[n][k] - 1 < WindowEnd

C4_Witness ==
    /\ ~return_tail
    /\ Finished
    /\ stop_at # None
    /\ Val(stop_at) < Len(src)
    /\ StartAt + Len(outL) * Step < Val(stop_at)
    /\ Len(outL) >= 2
    /\ Len(outC) >= 2

----------------------------------------------------------------------------
(* C5 - return_tail true.                                                  *)

\* C5: when return_tail is true the lengths of the yielded chunks are, in
\* both branches, some chunks of length chk_size followed by tail chunks of
\* strictly decreasing length in 1..chk_size-1: no chunk is empty or longer
\* than chk_size, and a chunk after a short one is strictly shorter still.
C5_TailShape ==
    return_tail =>
        \A out \in Outs :
            /\ \A n \in 1..Len(out) : Len(out[n]) \in 1..chk_size
            /\ \A n \in 1..(Len(out) - 1) :
                   Len(out[n]) < chk_size => Len(out[n + 1]) < Len(out[n])

C5_Witness ==
    /\ return_tail
    /\ Finished
    /\ \A out \in Outs :
          /\ Len(out) >= 3
          /\ Len(out[1]) = chk_size
          /\ Len(out[Len(out) - 1]) = 2
          /\ Len(out[Len(out)]) = 1

----------------------------------------------------------------------------
(* C6 - the number of full chunks of the list branch.                      *)

\* len(it[start_at:stop_at])
WindowLen == Max(WindowEnd - StartAt, 0)

\* max(0, floor((len(window) - chunk_size) / chunk_step) + 1)
FloorCount == Max(0, ((WindowLen - chk_size) \div Step) + 1)

\* C6: in the list branch the count computed with int() equals
\* max(0, floor((len(window) - chk_size) / chk_step) + 1), exactly that many
\* chunks of length chk_size are yielded, and they are the chunks at every
\* progression index whose chunk fits inside the window.
C6_FullChunkCount ==
    /\ pcL # "start" => n_full_chk_to_return = FloorCount
    /\ pcL = "done" =>
          /\ Cardinality({n \in 1..Len(outL) : Len(outL[n]) = chk_size}) = FloorCount
          /\ \A n \in 0..MaxLen :
                 StartAt + n * Step + chk_size <= WindowEnd =>
                     /\ n + 1 <= Len(outL)
                     /\ Len(outL[n + 1]) = chk_size

C6_Witness ==
    /\ pcL = "done"
    /\ FloorCount = 2
    /\ Step = 2
    /\ (WindowLen - chk_size) % Step = 1
    /\ return_tail
    /\ Len(outL) = 2

----------------------------------------------------------------------------
(* C7 - chk_size larger than the window.                                   *)

\* the suffixes of the window that start every chk_step elements
RECURSIVE Suffixes(_)
Suffixes(a) ==
    IF a >= WindowEnd THEN <<>>
    ELSE <<Elems(a, WindowEnd)>> \o Suffixes(a + Step)

\* C7 (as stated): when chk_size exceeds the window length and return_tail
\* is true, a chunk holding the entire window is yielded first.
C7_WholeWindowFirst ==
    (chk_size > WindowLen /\ return_tail) =>
        /\ pcL = "done" => (Len(outL) >= 1 /\ outL[1] = Window)
        /\ pcC = "done" => (Len(outC) >= 1 /\ outC[1] = Window)

\* C7 (amended): when chk_size exceeds the window length no error is raised
\* and the full-chunk count is 0; with return_tail false nothing is yielded;
\* with return_tail true the chunks yielded are the non-empty window
\* suffixes starting every chk_step elements, so the entire window comes
\* first when the window is not empty and nothing is yielded when it is.
C7_OversizedChunk ==
    chk_size > WindowLen =>
        /\ pcL \in {"start", "tail", "done"}
        /\ pcC \in {"start", "tail", "done"}
        /\ pcL # "start" => n_full_chk_to_return = 0
        /\ pcL = "done" => outL = IF return_tail THEN Suffixes(StartAt) ELSE <<>>
        /\ pcC = "done" => outC = IF return_tail THEN Suffixes(StartAt) ELSE <<>>
        /\ (Finished /\ return_tail /\ WindowLen > 0) =>
               (outL[1] = Window /\ outC[1] = Window)

C7_Witness ==
    /\ chk_size > WindowLen
    /\ return_tail
    /\ Finished
    /\ WindowLen = 2
    /\ Step = 1
    /\ StartAt = 1
    /\ outL = <<Window, <<Window[2]>> >>
    /\ outC = <<Window, <<Window[2]>> >>

----------------------------------------------------------------------------
(* C8 - the chunk sequence is finite.                                      *)

\* what a generator has left to do: the elements not yet passed, plus one
\* for the next() that finds the end
RemainingL ==
    IF pcL = "start" THEN Len(src) + 2
    ELSE IF pcL = "done" THEN 0
    ELSE Max(Len(itL) - bt, 0) + 1

RemainingC ==
    IF pcC = "start" THEN Len(src) + 2
    ELSE IF pcC = "done" THEN 0
    ELSE (Len(src) - isl.pos) + Len(chk) + 1

Remaining == RemainingL + RemainingC

\* C8: with valid arguments the chunk sequence of both branches is finite:
\* every next() strictly shrinks what remains, which is never negative and
\* is zero exactly when both generators have reached their end, and no
\* generator is ever cut short by MaxChunks; so pulling repeatedly reaches
\* the end after at most Remaining steps.
C8_Terminates ==
    [][/\ Remaining' < Remaining
       /\ Remaining' >= 0
       /\ (Remaining' = 0) <=> Finished'
       /\ Len(outL') < MaxChunks
       /\ Len(outC') < MaxChunks]_vars

C8_Witness ==
    /\ Finished
    /\ return_tail
    /\ Len(outL) = MaxLen
    /\ Len(outC) = MaxLen

----------------------------------------------------------------------------
(* C9 - consumption of the one-pass source under a finite stop_at.         *)

\* C9 (as stated): with a finite stop_at the iterator branch never consumes
\* more than stop_at elements of the source.
C9_NeverPastStop ==
    stop_at # None => isl.pos <= Val(stop_at)

\* C9 (amended): with a finite stop_at the iterator branch never consumes
\* more than max(start_at, stop_at) elements of the source; so never the
\* element at index stop_at or beyond when start_at <= stop_at.
C9_NeverPastStartOrStop ==
    stop_at # None =>
        /\ isl.pos <= Max(StartAt, Val(stop_at))
        /\ StartAt <= Val(stop_at) => isl.pos <= Val(stop_at)

C9_Witness ==
    /\ pcC = "done"
    /\ stop_at # None
    /\ StartAt < Val(stop_at)
    /\ Val(stop_at) < Len(src)
    /\ isl.pos = Val(stop_at)
    /\ Len(outC) >= 2

----------------------------------------------------------------------------
(* C10 - the one-pass source is consumed incrementally.                    *)

\* C10: when the n-th chunk (from 0) is handed to the caller at most
\* start_at + n * chk_step + chk_size source elements have been consumed,
\* and while the generator is suspended at a yield the source stays where
\* it was when that chunk was handed over.
C10_Incremental ==
    /\ Len(pulledAt) = Len(outC)
    /\ \A n \in 1..Len(pulledAt) :
           pulledAt[n] <= StartAt + (n - 1) * Step + chk_size
    /\ pcC \in {"overlap", "spaced", "tail"} =>
           isl.pos = pulledAt[Len(pulledAt)]

C10_Witness ==
    /\ pcC = "spaced"
    /\ Step > chk_size
    /\ Len(pulledAt) = 2
    /\ pulledAt[2] = StartAt + Step + chk_size
    /\ pulledAt[2] < Len(src)

====
